---- MODULE Spec2Model ----
(***************************************************************************)
(* Model of the Mini CTF scoring store (database.py): the four SQLite      *)
(* tables, and create_user, create_challenge, submit_flag and              *)
(* get_leaderboard, statement by statement.  Every call opens its own      *)
(* connection; Python's sqlite3 opens an implicit transaction before the   *)
(* first INSERT/UPDATE of a connection and SQLite lets one connection at a *)
(* time hold the write lock, so a call's writes live in the lock holder's  *)
(* working copy (wdb) until conn.commit() copies them to the file (db).    *)
(***************************************************************************)
EXTENDS Integers, Sequences, FiniteSets, TLC

VARIABLES
  db,     \* the committed content of ctf_game.db: users, challenges, submissions, progress
  wdb,    \* the uncommitted view of the connection that holds the write lock
  lock,   \* the process whose connection holds SQLite's write lock, 0 if none
  conn,   \* per process: the call in progress, its locals and its result
  now     \* the wall clock as last read by CURRENT_TIMESTAMP or datetime.now()

vars == <<db, wdb, lock, conn, now>>

\* ---------------------------------------------------------------- bounds
MaxChallenges == 1
MaxSubmissions == 2
MaxClock == 2

\* ---------------------------------------------------------------- inputs
Procs == {1, 2}
SeqProcs == {1}
Usernames == {"alice", "bob"}
UserIdArgs == 1..Cardinality(Usernames)
ChallengeIdArgs == 1..MaxChallenges
ChallengeInputs == {[flag |-> <<" ", "f">>, points |-> 1], [flag |-> <<"f">>, points |-> 2]}
SubmittedFlags == {<<"f", " ">>, <<"x">>}
Whitespace == {" ", "\t"}

\* ---------------------------------------------------------------- helpers
RECURSIVE lstrip(_)
lstrip(s) ==
  IF s # <<>> /\ Head(s) \in Whitespace THEN lstrip(Tail(s)) ELSE s

RECURSIVE rstrip(_)
rstrip(s) ==
  IF s # <<>> /\ s[Len(s)] \in Whitespace THEN rstrip(SubSeq(s, 1, Len(s) - 1)) ELSE s

strip(s) == rstrip(lstrip(s))

RECURSIVE SumSeq(_)
SumSeq(s) ==
  IF s = <<>> THEN 0 ELSE Head(s) + SumSeq(Tail(s))

RECURSIVE SelectRows(_, _, _)
SelectRows(rows, u, c) ==
  IF rows = <<>> THEN <<>>
  ELSE LET rest == SelectRows(Tail(rows), u, c)
       IN  IF Head(rows).user_id = u /\ Head(rows).challenge_id = c
           THEN <<Head(rows)>> \o rest ELSE rest

NULL == 0

EmptyDb == [users |-> <<>>, challenges |-> <<>>, submissions |-> <<>>, progress |-> <<>>]

\* What a call hands back: a (bool, message) pair, a row id, None, or an exception.
\* value carries the id of create_user/create_challenge and the N of
\* "Correct! You earned N points!".
NoResult == [kind |-> "none", accepted |-> FALSE, message |-> "", value |-> 0]
Returned(acc, msg, n) == [kind |-> "returned", accepted |-> acc, message |-> msg, value |-> n]
ReturnedId(i) == [kind |-> "id", accepted |-> FALSE, message |-> "", value |-> i]
ReturnedNone == [kind |-> "None", accepted |-> FALSE, message |-> "", value |-> 0]
Raised(msg) == [kind |-> "raised", accepted |-> FALSE, message |-> msg, value |-> 0]

IdleConn ==
  [pc |-> "idle", op |-> "", username |-> "", user_id |-> 0, challenge_id |-> 0,
   flag |-> <<>>, challenge |-> <<>>, progress |-> <<>>, is_correct |-> FALSE,
   result |-> NoResult]

Resting(p) == conn[p].pc \in {"idle", "done"}

\* A call that has ended: its connection is closed and its locals are gone; the
\* caller holds the arguments it passed and the result.
Done(me, result) ==
  [IdleConn EXCEPT !.pc = "done", !.op = me.op, !.username = me.username,
                   !.user_id = me.user_id, !.challenge_id = me.challenge_id,
                   !.result = result]

\* get_db_connection issues no PRAGMA foreign_keys = ON, and SQLite's default is
\* off: the FOREIGN KEY clauses of the schema are parsed but not enforced.
ForeignKeysEnforced == FALSE

ForeignKeyOK(d, u, c) ==
  ForeignKeysEnforced => (u \in DOMAIN d.users /\ c \in DOMAIN d.challenges)

\* Variant: isolation_level=None (autocommit), every statement written through.
AfterStatementAutocommit(d, w) == w

\* sqlite3.connect with the default isolation_level: a DML statement runs inside
\* an implicit transaction, so the file keeps its content d until commit; the
\* statement's effect w stays in the connection.
AfterStatement(d, w) == d

\* INTEGER PRIMARY KEY without AUTOINCREMENT: the new rowid is the largest + 1;
\* rows are never deleted, so a table is the sequence of its rows by id.
InsertRow(rows, r) == Append(rows, r)

Init ==
  /\ db = EmptyDb
  /\ wdb = EmptyDb
  /\ lock = 0
  /\ conn = [p \in Procs |-> IdleConn]
  /\ now = 1

\* ---------------------------------------------------------------- clock
\* The values a reading of the clock may give: the clock does not run backwards,
\* and any amount of time may have passed since it was last read.
ClockReadings == now..MaxClock

\* ---------------------------------------------------------------- create_user
\* Variant: the username column without its UNIQUE constraint.
UsernameNeverTaken(users, name) == FALSE

UsernameTaken(users, name) ==
  \E i \in DOMAIN users : users[i].username = name

\* INSERT INTO users: the UNIQUE(username) constraint raises IntegrityError, which
\* create_user turns into None; otherwise the row waits for the commit.
create_user(p, name) ==
  /\ Resting(p)
  /\ lock = 0
  /\ IF UsernameTaken(db.users, name)
     THEN /\ conn' = [conn EXCEPT ![p] =
                 Done([IdleConn EXCEPT !.op = "create_user", !.username = name],
                      ReturnedNone)]
          /\ UNCHANGED <<db, wdb, lock>>
          /\ UNCHANGED now
     ELSE /\ \E t \in ClockReadings :
               /\ now' = t
               /\ wdb' = [db EXCEPT !.users =
                      InsertRow(@, [username |-> name, score |-> 0, created_at |-> t])]
          /\ lock' = p
          /\ db' = AfterStatement(db, wdb')
          /\ conn' = [conn EXCEPT ![p] =
                 [IdleConn EXCEPT !.pc = "commit", !.op = "create_user",
                                  !.username = name, !.user_id = Len(wdb'.users)]]

\* ---------------------------------------------------------------- create_challenge
create_challenge(p, flag, points) ==
  /\ Resting(p)
  /\ lock = 0
  /\ Len(db.challenges) < MaxChallenges
  /\ wdb' = [db EXCEPT !.challenges =
         InsertRow(@, [flag |-> flag, points |-> points, is_active |-> 1])]
  /\ lock' = p
  /\ db' = AfterStatement(db, wdb')
  /\ conn' = [conn EXCEPT ![p] =
         [IdleConn EXCEPT !.pc = "commit", !.op = "create_challenge",
                          !.challenge_id = Len(wdb'.challenges)]]
  /\ UNCHANGED now

\* ---------------------------------------------------------------- submit_flag
\* Variant: the lookup without its is_active = 1 filter.
get_challenge_by_id_any(d, c) ==
  IF c \in DOMAIN d.challenges THEN <<d.challenges[c]>> ELSE <<>>

\* SELECT * FROM challenges WHERE id = ? AND is_active = 1; fetchone().
get_challenge_by_id(d, c) ==
  IF c \in DOMAIN d.challenges /\ d.challenges[c].is_active = 1
  THEN <<d.challenges[c]>> ELSE <<>>

\* SELECT is_solved FROM user_challenge_progress WHERE user_id = ? AND
\* challenge_id = ?; fetchone().
select_progress(d, u, c) ==
  LET rows == SelectRows(d.progress, u, c)
  IN  IF rows = <<>> THEN <<>> ELSE <<Head(rows)>>

\* Variant: the solved check left out.
AlreadySolvedUnchecked(progress) == FALSE

\* if progress and progress['is_solved']
AlreadySolved(progress) ==
  progress # <<>> /\ progress[1].is_solved = 1

\* Variant: the flags compared as typed, without strip().
FlagCorrectVerbatim(submitted, stored) ==
  submitted = stored

\* submitted_flag.strip() == challenge['flag'].strip()
FlagCorrect(submitted, stored) ==
  strip(submitted) = strip(stored)

BoolToInt(b) == IF b THEN 1 ELSE 0

\* Variant: the UPDATE without the attempts_count increment.
UpdateProgressNoCount(rows, u, c, is_correct, t) ==
  [i \in DOMAIN rows |->
     IF rows[i].user_id = u /\ rows[i].challenge_id = c
     THEN [rows[i] EXCEPT !.is_solved = BoolToInt(is_correct),
                          !.solved_at = IF is_correct THEN t ELSE NULL]
     ELSE rows[i]]

\* UPDATE user_challenge_progress SET attempts_count = attempts_count + 1,
\* is_solved = ?, solved_at = ? WHERE user_id = ? AND challenge_id = ?
UpdateProgress(rows, u, c, is_correct, t) ==
  [i \in DOMAIN rows |->
     IF rows[i].user_id = u /\ rows[i].challenge_id = c
     THEN [rows[i] EXCEPT !.attempts_count = @ + 1,
                          !.is_solved = BoolToInt(is_correct),
                          !.solved_at = IF is_correct THEN t ELSE NULL]
     ELSE rows[i]]

\* INSERT INTO user_challenge_progress (...) VALUES (?, ?, 1, ?, ?)
InsertProgress(rows, u, c, is_correct, t) ==
  InsertRow(rows, [user_id |-> u, challenge_id |-> c, attempts_count |-> 1,
                   is_solved |-> BoolToInt(is_correct),
                   solved_at |-> IF is_correct THEN t ELSE NULL])

\* UNIQUE(user_id, challenge_id)
UniqueProgressOK(rows, u, c) ==
  SelectRows(rows, u, c) = <<>>

\* UPDATE users SET score = score + ? WHERE id = ?  (no row: nothing happens)
UpdateScore(users, u, points) ==
  [i \in DOMAIN users |->
     IF i = u THEN [users[i] EXCEPT !.score = @ + points] ELSE users[i]]

\* Lines 170-177: look the challenge up (on a connection of its own).
submit_flag(p, u, c, f) ==
  /\ Resting(p)
  /\ Len(db.submissions) < MaxSubmissions
  /\ LET challenge == get_challenge_by_id(db, c)
         call == [IdleConn EXCEPT !.op = "submit_flag", !.user_id = u,
                                  !.challenge_id = c, !.flag = f]
     IN  conn' = [conn EXCEPT ![p] =
           IF challenge = <<>>
           THEN Done(call, Returned(FALSE, "Challenge not found", 0))
           ELSE [call EXCEPT !.pc = "select_progress", !.challenge = challenge]]
  /\ UNCHANGED <<db, wdb, lock, now>>

\* Lines 179-191: read the pair's progress, stop if solved, judge the flag.
check_solved(p) ==
  /\ conn[p].pc = "select_progress"
  /\ LET me == conn[p]
         progress == select_progress(db, me.user_id, me.challenge_id)
     IN  conn' = [conn EXCEPT ![p] =
           IF AlreadySolved(progress)
           THEN Done(me, Returned(FALSE, "Challenge already solved", 0))
           ELSE [me EXCEPT !.pc = "insert_submission",
                           !.progress = progress,
                           !.is_correct = FlagCorrect(me.flag, me.challenge[1].flag)]]
  /\ UNCHANGED <<db, wdb, lock, now>>

\* Lines 193-197: the first write; it takes the write lock and opens the
\* transaction.
insert_submission(p) ==
  /\ conn[p].pc = "insert_submission"
  /\ lock = 0
  /\ LET me == conn[p]
     IN  IF ForeignKeyOK(db, me.user_id, me.challenge_id)
         THEN /\ wdb' = [db EXCEPT !.submissions =
                     InsertRow(@, [user_id |-> me.user_id,
                                   challenge_id |-> me.challenge_id,
                                   submitted_flag |-> me.flag,
                                   is_correct |-> BoolToInt(me.is_correct)])]
              /\ lock' = p
              /\ db' = AfterStatement(db, wdb')
              /\ conn' = [conn EXCEPT ![p].pc = "upsert_progress"]
         ELSE /\ conn' = [conn EXCEPT ![p] = Done(conn[p], Raised("IntegrityError"))]
              /\ UNCHANGED <<db, wdb, lock>>
  /\ UNCHANGED now

\* Lines 199-213: UPDATE when the earlier SELECT saw a row, INSERT otherwise.  An
\* INSERT that meets a row of the pair raises IntegrityError, which nothing
\* catches: the connection is dropped with its transaction uncommitted.
upsert_progress(p) ==
  /\ conn[p].pc = "upsert_progress"
  /\ lock = p
  /\ LET me == conn[p]
         next_pc == IF me.is_correct THEN "update_score" ELSE "commit"
         \* datetime.now() if is_correct else None
         readings == IF me.is_correct THEN ClockReadings ELSE {now}
     IN  IF me.progress # <<>>
         THEN /\ \E t \in readings :
                   /\ now' = t
                   /\ wdb' = [wdb EXCEPT !.progress =
                          UpdateProgress(@, me.user_id, me.challenge_id, me.is_correct, t)]
              /\ db' = AfterStatement(db, wdb')
              /\ conn' = [conn EXCEPT ![p].pc = next_pc]
              /\ UNCHANGED lock
         ELSE IF UniqueProgressOK(wdb.progress, me.user_id, me.challenge_id)
         THEN /\ \E t \in readings :
                   /\ now' = t
                   /\ wdb' = [wdb EXCEPT !.progress =
                          InsertProgress(@, me.user_id, me.challenge_id, me.is_correct, t)]
              /\ db' = AfterStatement(db, wdb')
              /\ conn' = [conn EXCEPT ![p].pc = next_pc]
              /\ UNCHANGED lock
         ELSE /\ wdb' = EmptyDb
              /\ lock' = 0
              /\ conn' = [conn EXCEPT ![p] = Done(conn[p], Raised("IntegrityError"))]
              /\ UNCHANGED <<db, now>>

\* Lines 215-219
update_score(p) ==
  /\ conn[p].pc = "update_score"
  /\ lock = p
  /\ wdb' = [wdb EXCEPT !.users =
         UpdateScore(@, conn[p].user_id, conn[p].challenge[1].points)]
  /\ db' = AfterStatement(db, wdb')
  /\ conn' = [conn EXCEPT ![p].pc = "commit"]
  /\ UNCHANGED <<lock, now>>

\* conn.commit(); conn.close(); return ...  (create_user 99-102,
\* create_challenge 140-143, submit_flag 221-227)
ReturnValue(me) ==
  CASE me.op = "create_user" -> ReturnedId(me.user_id)
    [] me.op = "create_challenge" -> ReturnedId(me.challenge_id)
    [] OTHER ->
         IF me.is_correct
         THEN Returned(TRUE, "Correct! You earned N points!", me.challenge[1].points)
         ELSE Returned(FALSE, "Incorrect flag. Try again!", 0)

commit(p) ==
  /\ conn[p].pc = "commit"
  /\ lock = p
  /\ db' = wdb
  /\ wdb' = EmptyDb
  /\ lock' = 0
  /\ conn' = [conn EXCEPT ![p] = Done(conn[p], ReturnValue(conn[p]))]
  /\ UNCHANGED now

\* A call that does not reach its commit: the busy timeout of a connection
\* waiting for the write lock (OperationalError), an interrupt, a killed process.
\* Closing or dropping a connection rolls its open transaction back.
Fail(p) ==
  /\ ~Resting(p)
  /\ conn' = [conn EXCEPT ![p] =
         Done(conn[p], Raised(IF lock = p THEN "interrupted, rolled back"
                                          ELSE "interrupted"))]
  /\ IF lock = p
     THEN lock' = 0 /\ wdb' = EmptyDb
     ELSE UNCHANGED <<lock, wdb>>
  /\ UNCHANGED <<db, now>>

\* ---------------------------------------------------------------- get_leaderboard
\* Variant: the query without its WHERE score > 0.
LeaderboardRowsUnfiltered(d) == DOMAIN d.users

\* SELECT username, score, created_at FROM users WHERE score > 0
LeaderboardRows(d) ==
  {i \in DOMAIN d.users : d.users[i].score > 0}

\* ORDER BY score DESC, created_at ASC: a may stand before b
OrderedBefore(a, b) ==
  a.score > b.score \/ (a.score = b.score /\ a.created_at <= b.created_at)

\* The results the query may give, as sequences of user ids (usernames are
\* unique, so an id names its row): SQL leaves the order of rows that agree on
\* every ORDER BY key open.
get_leaderboard(d) ==
  LET rows == LeaderboardRows(d)
      n == Cardinality(rows)
  IN  {b \in [1..n -> rows] :
         /\ \A i, j \in 1..n : i # j => b[i] # b[j]
         /\ \A i, j \in 1..n : i < j => OrderedBefore(d.users[b[i]], d.users[b[j]])}

\* ---------------------------------------------------------------- deactivation
\* The soft delete of a challenge (is_active = 0).  No function of database.py
\* does it; the data model names it as the one mutation of a challenge.  It is
\* an operation of its own, done between two calls of the one caller.
deactivate_challenge(c) ==
  /\ \A p \in Procs : Resting(p)
  /\ lock = 0
  /\ c \in DOMAIN db.challenges
  /\ db.challenges[c].is_active = 1
  /\ db' = [db EXCEPT !.challenges[c].is_active = 0]
  /\ UNCHANGED <<wdb, lock, conn, now>>

\* ---------------------------------------------------------------- specifications
Step(p) ==
  \/ \E name \in Usernames : create_user(p, name)
  \/ \E ch \in ChallengeInputs : create_challenge(p, ch.flag, ch.points)
  \/ \E u \in UserIdArgs, c \in ChallengeIdArgs, f \in SubmittedFlags : submit_flag(p, u, c, f)
  \/ check_solved(p)
  \/ insert_submission(p)
  \/ upsert_progress(p)
  \/ update_score(p)
  \/ commit(p)
  \/ Fail(p)

\* Any number of callers at once, each on its own connection.
Next == \E p \in Procs : Step(p)

Spec == Init /\ [][Next]_vars

\* One caller: each call ends before the next begins.
NextSeq == \E p \in SeqProcs : Step(p)

SpecSeq == Init /\ [][NextSeq]_vars

\* One caller and one player, and challenges that an organizer may deactivate.
DeactUsernames == {"alice"}

NextDeact ==
  \/ \E c \in ChallengeIdArgs : deactivate_challenge(c)
  \/ \E p \in SeqProcs :
       \/ \E name \in DeactUsernames : create_user(p, name)
       \/ \E ch \in ChallengeInputs : create_challenge(p, ch.flag, ch.points)
       \/ \E u \in UserIdArgs, c \in ChallengeIdArgs, f \in SubmittedFlags : submit_flag(p, u, c, f)
       \/ check_solved(p)
       \/ insert_submission(p)
       \/ upsert_progress(p)
       \/ update_score(p)
       \/ commit(p)
       \/ Fail(p)

SpecDeact == Init /\ [][NextDeact]_vars

\* Any number of callers registering users at once.
NextRegister ==
  \E p \in Procs :
    \/ \E name \in Usernames : create_user(p, name)
    \/ commit(p)
    \/ Fail(p)

SpecRegister == Init /\ [][NextRegister]_vars

\* ================================================================ properties
\* Vocabulary of the properties, written from the tables alone.
Pairs == UserIdArgs \X ChallengeIdArgs

ProgressOf(d, u, c) == SelectRows(d.progress, u, c)

SubmissionsOf(d, u, c) == SelectRows(d.submissions, u, c)

CorrectCount(subs) ==
  Cardinality({i \in DOMAIN subs : subs[i].is_correct = 1})

HasSolvedRow(d, u, c) ==
  \E i \in DOMAIN d.progress :
    /\ d.progress[i].user_id = u
    /\ d.progress[i].challenge_id = c
    /\ d.progress[i].is_solved = 1

\* The sum of the points of the challenges the user has a solved row for.
SolvedPoints(d, u) ==
  SumSeq([c \in DOMAIN d.challenges |->
            IF HasSolvedRow(d, u, c) THEN d.challenges[c].points ELSE 0])

\* ---------------------------------------------------------------- C1
\* C1: in every state reached by a sequence of create_user, create_challenge and
\* submit_flag calls, the score of every existing user is the sum of the points
\* of the challenges the user has a solved Progress row for.
C1_ScoreIsSumOfSolved ==
  \A u \in DOMAIN db.users : db.users[u].score = SolvedPoints(db, u)

\* ---------------------------------------------------------------- C3
\* C3: concurrent correct submissions for one unsolved pair add the challenge's
\* points to the user's score at most once, so no user's score ever exceeds the
\* sum of the points of the challenges the user has solved.
C3_PointsAwardedAtMostOnce ==
  \A u \in DOMAIN db.users : db.users[u].score <= SolvedPoints(db, u)

\* ---------------------------------------------------------------- C9
\* C9: referential integrity: every Submission row and every Progress row names
\* a user id present in users and a challenge id present in challenges.
C9_ReferentialIntegrity ==
  /\ \A i \in DOMAIN db.submissions :
       /\ db.submissions[i].user_id \in DOMAIN db.users
       /\ db.submissions[i].challenge_id \in DOMAIN db.challenges
  /\ \A i \in DOMAIN db.progress :
       /\ db.progress[i].user_id \in DOMAIN db.users
       /\ db.progress[i].challenge_id \in DOMAIN db.challenges

\* ---------------------------------------------------------------- C10
\* C10: with one caller, every (user, challenge) pair has at most one Progress
\* row; the row exists iff the pair has a Submission row; its attempts_count is
\* the number of the pair's Submission rows; and the pair has at most one
\* Submission row with is_correct = 1, which exists iff the row has is_solved = 1.
C10_AuditTrailAgrees ==
  \A pair \in Pairs :
    LET rows == ProgressOf(db, pair[1], pair[2])
        subs == SubmissionsOf(db, pair[1], pair[2])
    IN  /\ Len(rows) <= 1
        /\ (rows # <<>>) <=> (subs # <<>>)
        /\ rows # <<>> => rows[1].attempts_count = Len(subs)
        /\ CorrectCount(subs) <= 1
        /\ (CorrectCount(subs) = 1) <=> (rows # <<>> /\ rows[1].is_solved = 1)

\* A pair solved at its second attempt: two Submission rows, one of them correct.
C10_Witness ==
  \E pair \in Pairs :
    LET rows == ProgressOf(db, pair[1], pair[2])
        subs == SubmissionsOf(db, pair[1], pair[2])
    IN  /\ Len(subs) = 2
        /\ CorrectCount(subs) = 1
        /\ rows # <<>>
        /\ rows[1].is_solved = 1
        /\ rows[1].attempts_count = 2

SubmitStep(p) ==
  conn'[p] # conn[p] /\ conn'[p].op = "submit_flag"

\* In this step p begins a call.
Begins(p) ==
  Resting(p) /\ conn'[p] # conn[p]

\* ---------------------------------------------------------------- C2
\* C2: solved is terminal: with one caller, every step of a submit_flag call for
\* a pair whose Progress row has is_solved = 1 leaves the database as it is
\* (score, Progress row, Submission rows), the call never gets to its writes,
\* and what it returns is (False, "Challenge already solved").
C2_SolvedIsTerminal ==
  [][\A p \in Procs :
       (SubmitStep(p) /\ HasSolvedRow(db, conn'[p].user_id, conn'[p].challenge_id))
         => /\ db' = db
            /\ conn'[p].pc \in {"select_progress", "done"}
            /\ (conn'[p].pc = "done" /\ conn'[p].result.kind # "raised")
                 => conn'[p].result = Returned(FALSE, "Challenge already solved", 0)]_vars

\* A submit_flag call for a solved pair has returned "Challenge already solved".
C2_Witness ==
  \E p \in Procs :
    /\ conn[p].pc = "done"
    /\ conn[p].op = "submit_flag"
    /\ conn[p].result = Returned(FALSE, "Challenge already solved", 0)
    /\ HasSolvedRow(db, conn[p].user_id, conn[p].challenge_id)

\* ---------------------------------------------------------------- C4
\* What one step may do to the file: nothing to submissions, progress and
\* scores, or all of one submission's writes at once (its Submission row, the
\* pair's Progress row with the attempt counted and is_solved set, and the
\* points added exactly when the submission is correct).
AtomicStep ==
  LET n == Len(db.submissions)
  IN  /\ Len(db'.submissions) \in {n, n + 1}
      /\ SubSeq(db'.submissions, 1, n) = db.submissions
      /\ DOMAIN db.users \subseteq DOMAIN db'.users
      /\ Len(db'.submissions) = n
           => /\ db'.progress = db.progress
              /\ \A u \in DOMAIN db.users : db'.users[u] = db.users[u]
      /\ Len(db'.submissions) = n + 1
           => LET s == db'.submissions[n + 1]
                  before == ProgressOf(db, s.user_id, s.challenge_id)
                  after == ProgressOf(db', s.user_id, s.challenge_id)
              IN  /\ after # <<>>
                  /\ after[1].attempts_count =
                       (IF before = <<>> THEN 1 ELSE before[1].attempts_count + 1)
                  /\ after[1].is_solved = s.is_correct
                  /\ DOMAIN db'.users = DOMAIN db.users
                  /\ \A u \in DOMAIN db.users :
                       db'.users[u].score = db.users[u].score +
                         (IF s.is_correct = 1 /\ u = s.user_id
                          THEN db.challenges[s.challenge_id].points ELSE 0)

\* C4: submit_flag is atomic: a call that is interrupted or fails leaves the
\* file as it was, a call that returns its verdict has added its Submission
\* row, and no step ever persists a proper subset of a submission's writes.
C4_SubmitFlagIsAtomic ==
  [][/\ AtomicStep
     /\ \A p \in Procs :
          /\ (conn'[p] # conn[p] /\ conn'[p].result.kind = "raised") => db' = db
          /\ (SubmitStep(p) /\ conn'[p].pc = "done"
                /\ conn'[p].result.message \in
                     {"Correct! You earned N points!", "Incorrect flag. Try again!"})
               => Len(db'.submissions) = Len(db.submissions) + 1]_vars

\* A submit_flag call was interrupted inside its transaction and rolled back.
C4_Witness ==
  \E p \in Procs :
    /\ conn[p].pc = "done"
    /\ conn[p].op = "submit_flag"
    /\ conn[p].result = Raised("interrupted, rolled back")
    /\ SubmissionsOf(db, conn[p].user_id, conn[p].challenge_id) = <<>>

\* ---------------------------------------------------------------- C5
\* C5: a submit_flag call whose challenge id names no challenge, or a challenge
\* with is_active = 0, returns (False, "Challenge not found") at once and
\* leaves users, submissions and user_challenge_progress unchanged.
C5_ChallengeNotFound ==
  [][\A p \in Procs :
       LET c == conn'[p].challenge_id
       IN  (Begins(p) /\ conn'[p].op = "submit_flag"
              /\ (c \notin DOMAIN db.challenges \/ db.challenges[c].is_active = 0))
             => /\ conn'[p].pc = "done"
                /\ conn'[p].result = Returned(FALSE, "Challenge not found", 0)
                /\ db' = db]_vars

\* "Challenge not found" was returned for a deactivated challenge on which the
\* pair has Progress.
C5_Witness ==
  \E p \in Procs :
    LET c == conn[p].challenge_id
    IN  /\ conn[p].pc = "done"
        /\ conn[p].op = "submit_flag"
        /\ conn[p].result = Returned(FALSE, "Challenge not found", 0)
        /\ c \in DOMAIN db.challenges
        /\ db.challenges[c].is_active = 0
        /\ ProgressOf(db, conn[p].user_id, c) # <<>>

\* ---------------------------------------------------------------- C6
\* C6: with one caller, a submit_flag call that returns for an active challenge
\* and a pair not yet solved has counted one attempt (attempts_count + 1, or a
\* new row with 1); an incorrect flag gives (False, "Incorrect flag. Try
\* again!"), is_solved = 0 and unchanged scores; a correct flag, after any
\* number of incorrect ones, gives accepted = True, is_solved = 1 and the
\* challenge's points added to the user's score.
C6_IncorrectThenCorrect ==
  [][\A p \in Procs :
       LET u == conn'[p].user_id
           c == conn'[p].challenge_id
       IN  (/\ SubmitStep(p)
            /\ conn'[p].pc = "done"
            /\ conn'[p].result.kind = "returned"
            /\ c \in DOMAIN db.challenges
            /\ db.challenges[c].is_active = 1
            /\ ~HasSolvedRow(db, u, c))
             => /\ ~Resting(p)
                /\ LET before == ProgressOf(db, u, c)
                       after == ProgressOf(db', u, c)
                   IN  /\ Len(after) = 1
                       /\ after[1].attempts_count =
                            (IF before = <<>> THEN 1 ELSE before[1].attempts_count + 1)
                       /\ IF strip(conn[p].flag) = strip(db.challenges[c].flag)
                          THEN /\ conn'[p].result.accepted
                               /\ after[1].is_solved = 1
                               /\ u \in DOMAIN db.users
                                    => db'.users[u].score =
                                         db.users[u].score + db.challenges[c].points
                          ELSE /\ conn'[p].result =
                                    Returned(FALSE, "Incorrect flag. Try again!", 0)
                               /\ after[1].is_solved = 0
                               /\ db'.users = db.users]_vars

\* A registered user's correct flag was accepted after an incorrect one.
C6_Witness ==
  \E p \in Procs :
    LET u == conn[p].user_id
        c == conn[p].challenge_id
    IN  /\ conn[p].pc = "done"
        /\ conn[p].op = "submit_flag"
        /\ conn[p].result.accepted
        /\ u \in DOMAIN db.users
        /\ db.users[u].score = db.challenges[c].points
        /\ ProgressOf(db, u, c)[1].attempts_count = 2
        /\ ProgressOf(db, u, c)[1].is_solved = 1

\* ---------------------------------------------------------------- C7
UniqueUsernames(d) ==
  \A i, j \in DOMAIN d.users : d.users[i].username = d.users[j].username => i = j

\* C7: create_user with a username not yet present inserts one user with
\* score 0 and returns an id no other user has; with a username already
\* present it returns None and leaves users unchanged; under any interleaving
\* of create_user calls no two user rows share a username.
C7_CreateUser ==
  [][/\ UniqueUsernames(db')
     /\ \A p \in Procs :
          /\ (Begins(p) /\ conn'[p].op = "create_user")
               => IF \E i \in DOMAIN db.users : db.users[i].username = conn'[p].username
                  THEN /\ conn'[p].pc = "done"
                       /\ conn'[p].result = ReturnedNone
                       /\ db' = db
                  ELSE conn'[p].pc = "commit"
          /\ (conn[p].op = "create_user" /\ conn[p].pc = "commit"
                /\ conn'[p].pc = "done" /\ conn'[p].result.kind # "raised")
               => /\ conn'[p].result.kind = "id"
                  /\ conn'[p].result.value \notin DOMAIN db.users
                  /\ DOMAIN db'.users = DOMAIN db.users \cup {conn'[p].result.value}
                  /\ \A i \in DOMAIN db.users : db'.users[i] = db.users[i]
                  /\ db'.users[conn'[p].result.value].username = conn[p].username
                  /\ db'.users[conn'[p].result.value].score = 0]_vars

\* Of two callers registering the same username one has an id, the other None.
C7_Witness ==
  \E p, q \in Procs :
    /\ conn[p].op = "create_user" /\ conn[p].result.kind = "id"
    /\ conn[q].op = "create_user" /\ conn[q].result = ReturnedNone
    /\ conn[p].username = conn[q].username
    /\ Len(db.users) = 2
====
